---- MODULE Spec2Model ----
(***************************************************************************)
(* Model of the QUBITEKK quantum-optics drivers: BiPhotonSource,           *)
(* CoincidenceCounter, MotorDriver (pyserial transports) and LCC25         *)
(* (vendor DLL handle).  One behaviour follows one driver session from     *)
(* the end of its constructor through calls of its properties and methods  *)
(* to close() and object teardown.  Every call is one action: the whole    *)
(* method body, with the transport's answers as the action's inputs.       *)
(***************************************************************************)
EXTENDS Integers, Sequences, FiniteSets, TLC

VARIABLES cls, comm_wait, attrs, is_open, handle, released, closeCalls, alive, nops, last,
          twin, pc, wire

\* twin: a second session of the same class and the record of its call, used where
\* two sessions are compared; pc and wire: the position of each caller inside a
\* call and the replies on their way from the device, used where two callers
\* share a session.  A single session with a single caller leaves the three alone.
vars == <<cls, comm_wait, attrs, is_open, handle, released, closeCalls, alive, nops, last, twin, pc, wire>>

(***************************************************************************)
(* Bounds of the model.                                                    *)
(***************************************************************************)
\* property/method calls (other than close) made on one session
MaxOps == 2
\* close() calls made on one session
MaxCloses == 2
\* depth at which the interpreter stops a recursion with RecursionError
MaxRecursion == 3

(***************************************************************************)
(* Python values.  A float is kept in thousandths (n = 1000 * value), an   *)
(* int and a bool in n, a str as the sequence s of its characters.         *)
(***************************************************************************)
None == [t |-> "None", n |-> 0, s |-> <<>>]

PyInt(i) == [t |-> "int", n |-> i, s |-> <<>>]

PyFloat(milli) == [t |-> "float", n |-> milli, s |-> <<>>]

PyBool(b) == [t |-> "bool", n |-> IF b THEN 1 ELSE 0, s |-> <<>>]

PyStr(cs) == [t |-> "str", n |-> 0, s |-> cs]

\* the value a failed conversion yields in place of a result; s names the exception
PyError(name) == [t |-> "error", n |-> 0, s |-> <<name>>]

IsNum(v) == v.t \in {"int", "float", "bool"}

\* numeric value in thousandths
Milli(v) == IF v.t = "float" THEN v.n ELSE v.n * 1000

\* Python ==
PyEq(a, b) == IF IsNum(a) /\ IsNum(b) THEN Milli(a) = Milli(b) ELSE a.t = b.t /\ a.n = b.n /\ a.s = b.s

\* Python truthiness
Truthy(v) == CASE v.t = "None" -> FALSE [] IsNum(v) -> v.n # 0 [] v.t = "str" -> v.s # <<>> [] OTHER -> TRUE

(***************************************************************************)
(* str(), int(), float() and the slicing and stripping the drivers apply   *)
(* to a reply.  The grammar covered is the one the replies below exercise: *)
(* optional sign, decimal digits, at most one '.', no exponent.            *)
(***************************************************************************)
DigitChars == <<"0", "1", "2", "3", "4", "5", "6", "7", "8", "9">>

IsDigit(c) == \E i \in 1..10 : DigitChars[i] = c

DigitVal(c) == (CHOOSE i \in 1..10 : DigitChars[i] = c) - 1

Whitespace == {" ", "\t", "\n", "\r"}

\* one byte that is not valid UTF-8
BadByte == "0xFF"

RECURSIVE LStrip(_)
LStrip(cs) == IF cs # <<>> /\ Head(cs) \in Whitespace THEN LStrip(Tail(cs)) ELSE cs

RECURSIVE RStrip(_)
RStrip(cs) == IF cs # <<>> /\ cs[Len(cs)] \in Whitespace THEN RStrip(SubSeq(cs, 1, Len(cs) - 1)) ELSE cs

\* str.strip()
Strip(cs) == RStrip(LStrip(cs))

\* s[:-k]
DropLast(cs, k) == IF Len(cs) <= k THEN <<>> ELSE SubSeq(cs, 1, Len(cs) - k)

AllDigits(cs) == \A i \in 1..Len(cs) : IsDigit(cs[i])

RECURSIVE DigitsVal(_)
DigitsVal(cs) == IF cs = <<>> THEN 0 ELSE DigitsVal(SubSeq(cs, 1, Len(cs) - 1)) * 10 + DigitVal(cs[Len(cs)])

Unsigned(cs) == IF cs # <<>> /\ Head(cs) \in {"+", "-"} THEN Tail(cs) ELSE cs

SignOf(cs) == IF cs # <<>> /\ Head(cs) = "-" THEN -1 ELSE 1

\* int(str)
ParseInt(cs) ==
    LET body == Unsigned(Strip(cs))
    IN  IF body # <<>> /\ AllDigits(body) THEN PyInt(SignOf(Strip(cs)) * DigitsVal(body)) ELSE PyError("ValueError")

DotAt(cs) == IF \E i \in 1..Len(cs) : cs[i] = "." THEN CHOOSE i \in 1..Len(cs) : cs[i] = "." /\ \A j \in 1..(i - 1) : cs[j] # "." ELSE 0

\* the first three fractional digits as thousandths
FracMilli(cs) ==
    LET d(i) == IF i <= Len(cs) THEN DigitVal(cs[i]) ELSE 0
    IN  d(1) * 100 + d(2) * 10 + d(3)

\* float(str)
ParseFloat(cs) ==
    LET body == Unsigned(Strip(cs))
        dot == DotAt(body)
        ip == IF dot = 0 THEN body ELSE SubSeq(body, 1, dot - 1)
        fp == IF dot = 0 THEN <<>> ELSE SubSeq(body, dot + 1, Len(body))
    IN  IF AllDigits(ip) /\ AllDigits(fp) /\ Len(ip) + Len(fp) > 0
        THEN PyFloat(SignOf(Strip(cs)) * (DigitsVal(ip) * 1000 + FracMilli(fp)))
        ELSE PyError("ValueError")

\* float(x) of a value that may already be a number
ToFloat(v) == CASE v.t = "str" -> ParseFloat(v.s) [] IsNum(v) -> PyFloat(Milli(v)) [] OTHER -> PyError("TypeError")

\* repr of a float with at most three decimals
FloatRepr(milli) ==
    LET a == IF milli < 0 THEN -milli ELSE milli
        fp == a % 1000
        frac == IF fp % 100 = 0 THEN ToString(fp \div 100)
                ELSE IF fp % 10 = 0 THEN (IF fp < 100 THEN "0" ELSE "") \o ToString(fp \div 10)
                ELSE (IF fp < 10 THEN "00" ELSE IF fp < 100 THEN "0" ELSE "") \o ToString(fp)
    IN  (IF milli < 0 THEN "-" ELSE "") \o ToString(a \div 1000) \o "." \o frac

\* f"{value}" of a number, as the text put into a command
Format(v) == CASE v.t = "int" -> ToString(v.n) [] v.t = "float" -> FloatRepr(v.n) [] v.t = "bool" -> (IF v.n = 1 THEN "True" ELSE "False") [] OTHER -> "None"

(***************************************************************************)
(* The transport as a call sees it.  M is the record a method body threads  *)
(* through its statements: the session's fields, the transport's answers    *)
(* still to come (replies, and fail: the number of the transport call that  *)
(* raises, 0 for none), the events so far and the exception raised, if any. *)
(* Every statement is skipped once an exception is pending.                 *)
(***************************************************************************)
Ev(k, d, n) == [k |-> k, d |-> d, n |-> n]

M0(replies, fail, out) ==
    [attrs |-> attrs, comm_wait |-> comm_wait, is_open |-> is_open, handle |-> handle,
     released |-> released,
     replies |-> replies, fail |-> fail, out |-> out, io |-> 0, used |-> <<>>,
     ev |-> <<>>, err |-> "", ret |-> <<>>, line |-> <<>>, str |-> <<>>, rc |-> 0]

Raise(m, name) == IF m.err # "" THEN m ELSE [m EXCEPT !.err = name]

\* serial.Serial.write: raises on a closed port or on a write timeout / I/O error
SerialWrite(m, data) ==
    IF m.err # "" THEN m
    ELSE IF ~m.is_open THEN [m EXCEPT !.err = "PortNotOpenError"]
    ELSE IF m.fail = m.io + 1 THEN [m EXCEPT !.io = @ + 1, !.err = "SerialException"]
    ELSE [m EXCEPT !.io = @ + 1, !.ev = Append(@, Ev("write", data, 0))]

\* serial.Serial.readline with timeout = 1: the next line, or b'' when nothing arrives
SerialReadline(m) ==
    IF m.err # "" THEN m
    ELSE IF ~m.is_open THEN [m EXCEPT !.err = "PortNotOpenError"]
    ELSE IF m.fail = m.io + 1 THEN [m EXCEPT !.io = @ + 1, !.err = "SerialException"]
    ELSE LET got == IF m.replies = <<>> THEN <<>> ELSE Head(m.replies)
         IN  [m EXCEPT !.io = @ + 1, !.ev = Append(@, Ev("read", "", 0)), !.line = got,
                       !.used = Append(@, got),
                       !.replies = IF m.replies = <<>> THEN <<>> ELSE Tail(m.replies)]

\* bytes.decode('utf-8') of the line just read
Decode(m) ==
    IF m.err # "" THEN m
    ELSE IF \E i \in 1..Len(m.line) : m.line[i] = BadByte THEN [m EXCEPT !.err = "UnicodeDecodeError"]
    ELSE [m EXCEPT !.str = m.line]

\* a + b on numbers; None + x is a TypeError
PyAdd(a, b) == IF IsNum(a) /\ IsNum(b) THEN PyFloat(Milli(a) + Milli(b)) ELSE PyError("TypeError")

\* time.sleep(v)
Sleep(m, v) ==
    IF m.err # "" THEN m
    ELSE IF v.t = "error" THEN [m EXCEPT !.err = v.s[1]]
    ELSE IF ~IsNum(v) THEN [m EXCEPT !.err = "TypeError"]
    ELSE IF Milli(v) < 0 THEN [m EXCEPT !.err = "ValueError"]
    ELSE [m EXCEPT !.ev = Append(@, Ev("sleep", "", Milli(v)))]

\* self.<name> = v, where evaluating v may have raised
SetAttr(m, name, v) ==
    IF m.err # "" THEN m
    ELSE IF v.t = "error" THEN [m EXCEPT !.err = v.s[1]]
    ELSE [m EXCEPT !.attrs[name] = v]

\* return v1, v2, ... where evaluating them in order may have raised
Return(m, vs) ==
    IF m.err # "" THEN m
    ELSE IF \E i \in 1..Len(vs) : vs[i].t = "error"
         THEN [m EXCEPT !.err = vs[CHOOSE i \in 1..Len(vs) : vs[i].t = "error" /\ \A j \in 1..(i - 1) : vs[j].t # "error"].s[1]]
    ELSE [m EXCEPT !.ret = vs]

\* the state after a call (all but the counters nops, closeCalls and alive, which
\* each action sets), and the record of the call kept for observation
Commit(op, arg, m) ==
    /\ attrs' = m.attrs
    /\ is_open' = m.is_open
    /\ handle' = m.handle
    /\ released' = m.released
    /\ last' = [op |-> op, arg |-> arg, ev |-> m.ev, err |-> m.err,
                ret |-> IF m.err = "" THEN m.ret ELSE <<>>,
                replies |-> m.used, out |-> m.out, pre |-> attrs, preOpen |-> is_open]
    /\ UNCHANGED <<cls, comm_wait, twin, pc, wire>>

(***************************************************************************)
(* CoincidenceCounter                                                       *)
(***************************************************************************)
\* int(s) * 1e-3 as a float
MilliOfInt(s) == LET i == ParseInt(s) IN IF i.t = "error" THEN i ELSE PyFloat(i.n)

CoincidenceCounter_dwell_time_get(m) ==
    LET m1 == SerialWrite(m, "DWEL?\n")
        m2 == Sleep(m1, m1.comm_wait)
        m3 == Decode(SerialReadline(m2))
        time_in_ms == DropLast(m3.str, 3)
        m4 == SetAttr(m3, "_dwell_time", MilliOfInt(time_in_ms))
    IN  Return(m4, <<PyStr(time_in_ms \o <<" ", "m", "s">>)>>)

\* mutant: the cache is written before the command is sent
CoincidenceCounter_dwell_time_set_cache_first(m, value) ==
    IF Milli(value) < 100 \/ Milli(value) > 30000 THEN Raise(m, "ValueError")
    ELSE LET m1 == SetAttr(m, "_dwell_time", value)
             m2 == SerialWrite(m1, ":DWEL " \o Format(value) \o "\n")
         IN  Sleep(m2, m2.comm_wait)

CoincidenceCounter_dwell_time_set(m, value) ==
    IF Milli(value) < 100 \/ Milli(value) > 30000 THEN Raise(m, "ValueError")
    ELSE LET m1 == SerialWrite(m, ":DWEL " \o Format(value) \o "\n")
             m2 == SetAttr(m1, "_dwell_time", value)
         IN  Sleep(m2, m2.comm_wait)

CoincidenceCounter_coincidence_window_get(m) ==
    LET m1 == SerialWrite(m, "WIND?\n")
        m2 == Sleep(m1, m1.comm_wait)
        m3 == Decode(SerialReadline(m2))
    IN  Return(m3, <<PyStr(DropLast(m3.str, 1))>>)

\* value in range(1, 9)
CoincidenceCounter_coincidence_window_set(m, value) ==
    IF ~(\E i \in 1..8 : Milli(value) = i * 1000) THEN Raise(m, "ValueError")
    ELSE LET m1 == SerialWrite(m, ":WIND " \o Format(value) \o "\n")
         IN  Sleep(m1, m1.comm_wait)

CoincidenceCounter_ch1_delay_get(m) ==
    LET m1 == SerialWrite(m, "DELA?\n")
        m2 == Sleep(m1, m1.comm_wait)
        m3 == Decode(SerialReadline(m2))
    IN  Return(m3, <<PyStr(DropLast(m3.str, 1))>>)

\* value in [0, 2, 4, 6, 8, 10, 12, 14]
CoincidenceCounter_ch1_delay_set(m, value) ==
    IF ~(\E i \in {0, 2, 4, 6, 8, 10, 12, 14} : Milli(value) = i * 1000) THEN Raise(m, "ValueError")
    ELSE LET m1 == SerialWrite(m, ":DELA " \o Format(value) \o "\n")
         IN  Sleep(m1, m1.comm_wait)

CoincidenceCounter_measure_channels(m) ==
    LET a1 == SerialWrite(m, ":COUN:ON\n")
        a2 == Sleep(a1, PyAdd(a1.comm_wait, a1.attrs["_dwell_time"]))
        a3 == Decode(SerialReadline(a2))
        b1 == SerialWrite(a3, "COUN:C1?\n")
        b2 == Sleep(b1, b1.comm_wait)
        b3 == Decode(SerialReadline(b2))
        ch1 == DropLast(b3.str, 1)
        c1 == SerialWrite(b3, "COUN:C2?\n")
        c2 == Sleep(c1, c1.comm_wait)
        c3 == Decode(SerialReadline(c2))
        ch2 == DropLast(c3.str, 1)
        d1 == SerialWrite(c3, "COUN:CO?\n")
        d2 == Sleep(d1, d1.comm_wait)
        d3 == Decode(SerialReadline(d2))
        coincidences == DropLast(d3.str, 1)
    IN  Return(d3, <<ParseInt(ch1), ParseInt(ch2), ParseInt(coincidences)>>)

CoincidenceCounter_query(m, cmd) ==
    LET m1 == SerialWrite(m, cmd \o "\n")
        m2 == Sleep(m1, m1.comm_wait)
        m3 == Decode(SerialReadline(m2))
    IN  Return(m3, <<PyStr(DropLast(m3.str, 1))>>)

\* serial.Serial.close(): releases the port if it is open, else does nothing
SerialClose(m) ==
    IF m.err # "" THEN m
    ELSE [m EXCEPT !.ev = Append(@, Ev("close", "", 0)),
                   !.is_open = FALSE, !.released = IF m.is_open THEN @ + 1 ELSE @]

CoincidenceCounter_del(m) == SerialClose(m)

\* `self.serial.close` only names the method; the port is closed by __del__()
CoincidenceCounter_close(m) == CoincidenceCounter_del(m)

(***************************************************************************)
(* MotorDriver                                                              *)
(***************************************************************************)
\* mutant: an empty reply is answered with a stand-in value instead of a second query
MotorDriver_position_get_sentinel(m, depth) ==
    LET m1 == SerialWrite(m, "POSI?\n")
        m2 == Sleep(m1, m1.comm_wait)
        m3 == Decode(SerialReadline(m2))
        position_str == PyStr(DropLast(m3.str, 1))
    IN  IF m3.err # "" THEN m3
        ELSE IF position_str.s = <<>> THEN Return(m3, <<PyFloat(0)>>)
        ELSE Return(m3, <<ToFloat(position_str)>>)

\* the getter calls itself on an empty reply; depth is the interpreter's call depth
RECURSIVE MotorDriver_position_get(_, _)
MotorDriver_position_get(m, depth) ==
    LET m1 == SerialWrite(m, "POSI?\n")
        m2 == Sleep(m1, m1.comm_wait)
        m3 == Decode(SerialReadline(m2))
        position_str == PyStr(DropLast(m3.str, 1))
    IN  IF m3.err # "" THEN m3
        ELSE IF position_str.s = <<>>
             THEN IF depth >= MaxRecursion THEN Raise(m3, "RecursionError")
                  ELSE LET r == MotorDriver_position_get(m3, depth + 1)
                       IN  IF r.err # "" THEN r ELSE Return(r, <<ToFloat(r.ret[1])>>)
        ELSE Return(m3, <<ToFloat(position_str)>>)

\* mutant: the lower bound of the error message (0) instead of the one tested (1)
MotorDriver_position_set_from_zero(m, value) ==
    IF Milli(value) < 0 \/ Milli(value) > 29000 THEN Raise(m, "ValueError")
    ELSE LET m1 == SerialWrite(m, ":MOVE ABS " \o Format(value) \o "\n")
         IN  Sleep(m1, m1.comm_wait)

MotorDriver_position_set(m, value) ==
    IF Milli(value) < 1000 \/ Milli(value) > 29000 THEN Raise(m, "ValueError")
    ELSE LET m1 == SerialWrite(m, ":MOVE ABS " \o Format(value) \o "\n")
         IN  Sleep(m1, m1.comm_wait)

MotorDriver_del(m) == SerialClose(m)

(***************************************************************************)
(* BiPhotonSource                                                           *)
(***************************************************************************)
\* str.upper()
Upper(cs) ==
    LET lower == <<"a", "b", "c", "d", "e", "f", "g", "h", "i", "j", "k", "l", "m", "n", "o", "p", "q", "r", "s", "t", "u", "v", "w", "x", "y", "z">>
        upper == <<"A", "B", "C", "D", "E", "F", "G", "H", "I", "J", "K", "L", "M", "N", "O", "P", "Q", "R", "S", "T", "U", "V", "W", "X", "Y", "Z">>
    IN  [i \in 1..Len(cs) |-> IF \E j \in 1..26 : lower[j] = cs[i] THEN upper[CHOOSE j \in 1..26 : lower[j] = cs[i]] ELSE cs[i]]

\* sub in cs
Contains(cs, sub) == \E i \in 0..(Len(cs) - Len(sub)) : SubSeq(cs, i + 1, i + Len(sub)) = sub

\* A _query that writes the command and returns without reading the reply.
BiPhotonSource_query_unread(m, cmd) ==
    LET m1 == SerialWrite(m, cmd \o "\r\n")
        m2 == Sleep(m1, m1.comm_wait)
    IN  IF m2.err # "" THEN m2 ELSE [m2 EXCEPT !.str = <<>>]

BiPhotonSource_write(m, cmd) ==
    LET m1 == SerialWrite(m, cmd \o "\r\n")
    IN  Sleep(m1, m1.comm_wait)

BiPhotonSource_query(m, cmd) ==
    LET m1 == SerialWrite(m, cmd \o "\r\n")
        m2 == Sleep(m1, m1.comm_wait)
        m3 == Decode(SerialReadline(m2))
    IN  IF m3.err # "" THEN m3 ELSE [m3 EXCEPT !.str = Strip(m3.str)]

BiPhotonSource_temperature_get(m) ==
    LET q == BiPhotonSource_query(m, "TEMP?")
        m1 == SetAttr(q, "_temperature", ParseFloat(q.str))
    IN  Return(m1, <<m1.attrs["_temperature"]>>)

BiPhotonSource_temperature_setpoint_get(m) ==
    LET q == BiPhotonSource_query(m, "SETP?")
        m1 == SetAttr(q, "_temperature_setpoint", ParseInt(q.str))
    IN  Return(m1, <<m1.attrs["_temperature_setpoint"]>>)

BiPhotonSource_temperature_setpoint_set(m, value) ==
    IF ~(10000000 <= Milli(value) /\ Milli(value) <= 50000000) THEN Raise(m, "ValueError")
    ELSE SetAttr(BiPhotonSource_write(m, ":SETT " \o Format(value)), "_temperature_setpoint", value)

BiPhotonSource_current_get(m) ==
    LET q == BiPhotonSource_query(m, "CURR?")
        m1 == SetAttr(q, "_current", ParseFloat(q.str))
    IN  Return(m1, <<m1.attrs["_current"]>>)

BiPhotonSource_voltage_get(m) ==
    LET q == BiPhotonSource_query(m, "VOLT?")
        m1 == SetAttr(q, "_voltage", ParseFloat(q.str))
    IN  Return(m1, <<m1.attrs["_voltage"]>>)

BiPhotonSource_fault_status_get(m) ==
    LET q == BiPhotonSource_query(m, "FAUL?")
        m1 == SetAttr(q, "_fault_status", ParseInt(q.str))
    IN  Return(m1, <<m1.attrs["_fault_status"]>>)

BiPhotonSource_heating_state_get(m) ==
    LET q == BiPhotonSource_query(m, "HORC?")
        m1 == SetAttr(q, "_heating_state", PyStr(q.str))
    IN  Return(m1, <<m1.attrs["_heating_state"]>>)

BiPhotonSource_firmware_version_get(m) ==
    LET q == BiPhotonSource_query(m, "FIRM?")
        m1 == SetAttr(q, "_firmware_version", PyStr(q.str))
    IN  Return(m1, <<m1.attrs["_firmware_version"]>>)

BiPhotonSource_laser_on_get(m) ==
    LET q == BiPhotonSource_query(m, "PLST?")
        m1 == SetAttr(q, "_laser_status", PyStr(q.str))
        m2 == SetAttr(m1, "_laser_on", PyBool(Contains(Upper(m1.attrs["_laser_status"].s), <<"A", "P", "C">>)))
    IN  Return(m2, <<m2.attrs["_laser_on"]>>)

BiPhotonSource_laser_on_set(m, state) ==
    LET m1 == IF Truthy(state) THEN BiPhotonSource_write(m, ":PLON") ELSE BiPhotonSource_write(m, ":PLOF")
    IN  SetAttr(m1, "_laser_on", state)

BiPhotonSource_laser_power_get(m) ==
    LET q == BiPhotonSource_query(m, "PLDC?")
        m1 == SetAttr(q, "_laser_power", ParseInt(q.str))
    IN  Return(m1, <<m1.attrs["_laser_power"]>>)

BiPhotonSource_laser_power_set(m, value) ==
    IF ~(0 <= Milli(value) /\ Milli(value) <= 8000000) THEN Raise(m, "ValueError")
    ELSE SetAttr(BiPhotonSource_write(m, ":PLSD " \o Format(value)), "_laser_power", value)

BiPhotonSource_laser_current_get(m) ==
    LET q == BiPhotonSource_query(m, "PLCR?")
        m1 == SetAttr(q, "_laser_current", ParseFloat(q.str))
    IN  Return(m1, <<m1.attrs["_laser_current"]>>)

BiPhotonSource_laser_current_set(m, value) ==
    IF ~(20000 <= Milli(value) /\ Milli(value) <= 120000) THEN Raise(m, "ValueError")
    ELSE SetAttr(BiPhotonSource_write(m, ":PLDC " \o Format(value)), "_laser_current", value)

BiPhotonSource_laser_status_get(m) ==
    LET q == BiPhotonSource_query(m, "PLST?")
        m1 == SetAttr(q, "_laser_status", PyStr(q.str))
    IN  Return(m1, <<m1.attrs["_laser_status"]>>)

BiPhotonSource_laser_id_get(m) == LET q == BiPhotonSource_query(m, "PLID?") IN Return(q, <<PyStr(q.str)>>)

BiPhotonSource_laser_hours_get(m) == LET q == BiPhotonSource_query(m, "PLOH?") IN Return(q, <<ParseInt(q.str)>>)

BiPhotonSource_laser_turnons_get(m) == LET q == BiPhotonSource_query(m, "PLTO?") IN Return(q, <<ParseInt(q.str)>>)

BiPhotonSource_laser_info_get(m) == LET q == BiPhotonSource_query(m, "PLIN?") IN Return(q, <<PyStr(q.str)>>)

BiPhotonSource_laser_firmware_get(m) == LET q == BiPhotonSource_query(m, "PLFM?") IN Return(q, <<PyStr(q.str)>>)

BiPhotonSource_laser_model_get(m) == LET q == BiPhotonSource_query(m, "PLMD?") IN Return(q, <<PyStr(q.str)>>)

BiPhotonSource_laser_access_level_get(m) == LET q == BiPhotonSource_query(m, "PLAC?") IN Return(q, <<ParseInt(q.str)>>)

BiPhotonSource_enable_autostart(m) == BiPhotonSource_write(m, ":PLAO")

BiPhotonSource_disable_autostart(m) == BiPhotonSource_write(m, ":PLAF")

BiPhotonSource_save_settings(m) == BiPhotonSource_write(m, ":PLSV")

BiPhotonSource_change_access_level(m) == BiPhotonSource_write(m, ":PLAC")

BiPhotonSource_close(m) == SerialClose(m)

(***************************************************************************)
(* LCC25.  A DLL call is an event ("dll", function, argument in            *)
(* thousandths); rc is its return code, negative when the call fails.       *)
(***************************************************************************)
\* a cmdGet.../cmdSet... call with self.handle as the c_int first argument
DllCall(m, fn, arg) ==
    IF m.err # "" THEN m
    ELSE IF m.handle.t # "int" THEN [m EXCEPT !.err = "ArgumentError"]
    ELSE [m EXCEPT !.io = @ + 1, !.ev = Append(@, Ev("dll", fn, arg)),
                   !.rc = IF m.fail = m.io + 1 THEN -1 ELSE 0]

\* if ret < 0: raise IOError(...)
CheckRet(m) == IF m.err = "" /\ m.rc < 0 THEN [m EXCEPT !.err = "IOError"] ELSE m

\* LCC25Close(handle) of the vendor wrapper: releases the device handle
LCC25Close(m) ==
    IF m.err # "" THEN m
    ELSE [m EXCEPT !.ev = Append(@, Ev("dll", "Close", Milli(m.handle))),
                   !.is_open = FALSE, !.released = IF m.is_open THEN @ + 1 ELSE @]

\* mutant: close() without the test of self.handle
LCC25_close_unguarded(m) == [LCC25Close(m) EXCEPT !.handle = None]

LCC25_close(m) == IF Truthy(m.handle) THEN [LCC25Close(m) EXCEPT !.handle = None] ELSE m

LCC25_output_mode_get(m) ==
    LET m1 == CheckRet(DllCall(m, "GetOutputMode", 0))
        mode == m1.out.n
    IN  Return(m1, <<CASE mode = 0 -> PyStr(<<"modulation">>) [] mode = 1 -> PyStr(<<"voltage1">>) [] mode = 2 -> PyStr(<<"voltage2">>)
                       [] OTHER -> PyStr(<<"Unknown(", ToString(mode), ")">>)>>)

LCC25_output_mode_set(m, mode_name) ==
    IF mode_name.s \notin {<<"modulation">>, <<"voltage1">>, <<"voltage2">>} THEN Raise(m, "ValueError")
    ELSE LET mode_code == CASE mode_name.s = <<"modulation">> -> 0 [] mode_name.s = <<"voltage1">> -> 1 [] OTHER -> 2
         IN  CheckRet(DllCall(m, "SetOutputMode", mode_code * 1000))

LCC25_voltage1_get(m) == LET m1 == CheckRet(DllCall(m, "GetVoltage1", 0)) IN Return(m1, <<PyFloat(Milli(m1.out))>>)

LCC25_voltage1_set(m, value) ==
    IF ~(0 <= Milli(value) /\ Milli(value) <= 25000) THEN Raise(m, "ValueError")
    ELSE CheckRet(DllCall(m, "SetVoltage1", Milli(value)))

LCC25_voltage2_get(m) == LET m1 == CheckRet(DllCall(m, "GetVoltage2", 0)) IN Return(m1, <<PyFloat(Milli(m1.out))>>)

LCC25_voltage2_set(m, value) ==
    IF ~(0 <= Milli(value) /\ Milli(value) <= 25000) THEN Raise(m, "ValueError")
    ELSE CheckRet(DllCall(m, "SetVoltage2", Milli(value)))

LCC25_modulation_frequency_get(m) == LET m1 == CheckRet(DllCall(m, "GetModulationFrequency", 0)) IN Return(m1, <<PyFloat(Milli(m1.out))>>)

LCC25_modulation_frequency_set(m, value) ==
    IF ~(5000 <= Milli(value) /\ Milli(value) <= 150000) THEN Raise(m, "ValueError")
    ELSE CheckRet(DllCall(m, "SetModulationFrequency", Milli(value)))

LCC25_output_enable_get(m) == LET m1 == CheckRet(DllCall(m, "GetOutputEnable", 0)) IN Return(m1, <<PyBool(m1.out.n # 0)>>)

LCC25_output_enable_set(m, enable) == CheckRet(DllCall(m, "SetOutputEnable", IF Truthy(enable) THEN 1000 ELSE 0))

(***************************************************************************)
(* Inputs: the values a caller passes and the lines a device sends.         *)
(***************************************************************************)
\* comm_delay given to the constructor
CommDelays == {PyFloat(0), PyFloat(500)}

DwellValues == {PyFloat(50), PyFloat(100), PyFloat(2000), PyInt(30), PyFloat(30500)}

WindowValues == {PyInt(0), PyInt(1), PyFloat(2000), PyInt(8), PyInt(9), PyFloat(2500)}

DelayValues == {PyInt(-2), PyInt(0), PyInt(3), PyInt(14), PyInt(16)}

\* nothing arrives within the read timeout
NoLine == <<>>

BadLine == <<BadByte, "\n">>

DwellReplies == {<<"2", "0", "0", "0", "m", "s", "\n">>, <<"5", "0", "0", " ", "\r", "\n">>, <<"1", "0", "\n">>, NoLine, BadLine}

CountReplies == {<<"1", "0", "\n">>, <<"2", "0", "\n">>, <<"3", "\n">>, <<"a", "b", "c", "\n">>, NoLine}

ArmReplies == {NoLine, BadLine}

MeasureReplies == {<<"1", "0", "\n">>, <<"2", "0", "\n">>, <<"3", "\n">>, NoLine}

QueryCmds == {"DWEL?", "FIRM?"}

PositionValues == {PyInt(0), PyFloat(500), PyInt(1), PyFloat(14500), PyInt(29), PyFloat(29500)}

PositionReplies == {<<"1", "4", ".", "5", "\n">>, <<"\n">>, NoLine, <<"a", "b", "c", "\n">>}

\* the lines that arrive during one call, in order: at most n of them
Scripts(S, n) == UNION {[1..k -> S] : k \in 0..n}

SetpointValues == {PyInt(9999), PyInt(10000), PyInt(25000), PyInt(50000), PyInt(50001)}

PowerValues == {PyInt(-1), PyInt(0), PyInt(8000), PyInt(8001)}

CurrentValues == {PyInt(19), PyInt(20), PyFloat(20500), PyInt(120), PyInt(121), PyInt(150)}

Booleans == {PyBool(TRUE), PyBool(FALSE)}

SourceReplies == {<<"2", "5", "0", "0", "0", "\r", "\n">>, <<"1", "4", ".", "5", "\r", "\n">>, <<"a", "p", "c", " ", "o", "n", "\r", "\n">>, NoLine, BadLine}

\* what LCC25Open returns: a negative code, or a handle
OpenResults == {-1, 0, 1}

VoltageValues == {PyFloat(-100), PyInt(0), PyFloat(2000), PyInt(25), PyFloat(25500)}

FrequencyValues == {PyInt(4), PyInt(5), PyFloat(60500), PyInt(150), PyInt(151)}

ModeNames == {PyStr(<<"modulation">>), PyStr(<<"voltage1">>), PyStr(<<"voltage2">>), PyStr(<<"bogus">>)}

\* what a DLL getter stores through its out-pointer
DoubleOuts == {PyFloat(0), PyFloat(12500)}

IntOuts == {PyInt(0), PyInt(1), PyInt(2), PyInt(3)}

(***************************************************************************)
(* The state after construction.                                            *)
(***************************************************************************)
CoincidenceCounter_init ==
    /\ cls = "CoincidenceCounter"
    /\ comm_wait \in CommDelays
    /\ attrs = [a \in {"_dwell_time"} |-> None]
    /\ is_open = TRUE
    /\ handle = None
    /\ alive = TRUE
    /\ last = [op |-> "__init__", arg |-> None, ev |-> <<>>, err |-> "", ret |-> <<>>,
               replies |-> <<>>, out |-> None, pre |-> <<>>, preOpen |-> FALSE]

\* the constructor sleeps 0.1 s and switches the LED off
MotorDriver_init ==
    /\ cls = "MotorDriver"
    /\ comm_wait \in CommDelays
    /\ attrs = <<>>
    /\ is_open = TRUE
    /\ handle = None
    /\ alive = TRUE
    /\ last = [op |-> "__init__", arg |-> None, ev |-> <<Ev("sleep", "", 100), Ev("write", ":LEDO\n", 0)>>, err |-> "", ret |-> <<>>,
               replies |-> <<>>, out |-> None, pre |-> <<>>, preOpen |-> FALSE]

BiPhotonSource_init ==
    /\ cls = "BiPhotonSource"
    /\ comm_wait \in CommDelays
    /\ attrs = [a \in {"_temperature", "_temperature_setpoint", "_current", "_voltage", "_fault_status", "_heating_state",
                        "_firmware_version", "_laser_on", "_laser_power", "_laser_current", "_laser_status"}
                  |-> IF a = "_laser_on" THEN PyBool(FALSE) ELSE None]
    /\ is_open = TRUE
    /\ handle = None
    /\ alive = TRUE
    /\ last = [op |-> "__init__", arg |-> None, ev |-> <<>>, err |-> "", ret |-> <<>>,
               replies |-> <<>>, out |-> None, pre |-> <<>>, preOpen |-> FALSE]

\* the constructor keeps what LCC25Open returns and raises ConnectionError on a negative code
LCC25_init ==
    /\ cls = "LCC25"
    /\ comm_wait = None
    /\ attrs = <<>>
    /\ \E h \in OpenResults :
          /\ handle = PyInt(h)
          /\ is_open = (h >= 0)
          /\ alive = (h >= 0)
          /\ last = [op |-> "__init__", arg |-> None, ev |-> <<Ev("dll", "Open", 0)>>,
                     err |-> IF h < 0 THEN "ConnectionError" ELSE "", ret |-> <<>>,
                     replies |-> <<>>, out |-> PyInt(h), pre |-> <<>>, preOpen |-> FALSE]

Init ==
    /\ released = 0
    /\ closeCalls = 0
    /\ nops = 0
    /\ twin = <<>>
    /\ pc = <<>>
    /\ wire = <<>>
    /\ \/ CoincidenceCounter_init
       \/ MotorDriver_init
       \/ BiPhotonSource_init
       \/ LCC25_init

(***************************************************************************)
(* Calls on a CoincidenceCounter.                                           *)
(***************************************************************************)
CanCall(c) == cls = c /\ alive /\ nops < MaxOps

Counted == nops' = nops + 1 /\ UNCHANGED <<closeCalls, alive>>

Call_CoincidenceCounter_dwell_time_get ==
    /\ CanCall("CoincidenceCounter")
    /\ \E r \in DwellReplies, fail \in 0..2 :
          Commit("dwell_time.get", None, CoincidenceCounter_dwell_time_get(M0(<<r>>, fail, None)))
    /\ Counted

Call_CoincidenceCounter_dwell_time_set ==
    /\ CanCall("CoincidenceCounter")
    /\ \E value \in DwellValues, fail \in 0..1 :
          Commit("dwell_time.set", value, CoincidenceCounter_dwell_time_set(M0(<<>>, fail, None), value))
    /\ Counted

Call_CoincidenceCounter_coincidence_window_get ==
    /\ CanCall("CoincidenceCounter")
    /\ \E r \in CountReplies \cup {BadLine}, fail \in 0..2 :
          Commit("coincidence_window.get", None, CoincidenceCounter_coincidence_window_get(M0(<<r>>, fail, None)))
    /\ Counted

Call_CoincidenceCounter_coincidence_window_set ==
    /\ CanCall("CoincidenceCounter")
    /\ \E value \in WindowValues, fail \in 0..1 :
          Commit("coincidence_window.set", value, CoincidenceCounter_coincidence_window_set(M0(<<>>, fail, None), value))
    /\ Counted

Call_CoincidenceCounter_ch1_delay_get ==
    /\ CanCall("CoincidenceCounter")
    /\ \E r \in CountReplies \cup {BadLine}, fail \in 0..2 :
          Commit("ch1_delay.get", None, CoincidenceCounter_ch1_delay_get(M0(<<r>>, fail, None)))
    /\ Counted

Call_CoincidenceCounter_ch1_delay_set ==
    /\ CanCall("CoincidenceCounter")
    /\ \E value \in DelayValues, fail \in 0..1 :
          Commit("ch1_delay.set", value, CoincidenceCounter_ch1_delay_set(M0(<<>>, fail, None), value))
    /\ Counted

Call_CoincidenceCounter_measure_channels ==
    /\ CanCall("CoincidenceCounter")
    /\ \E r0 \in ArmReplies, r1 \in MeasureReplies, r2 \in MeasureReplies, r3 \in MeasureReplies, fail \in 0..8 :
          Commit("measure_channels", None, CoincidenceCounter_measure_channels(M0(<<r0, r1, r2, r3>>, fail, None)))
    /\ Counted

Call_CoincidenceCounter_query ==
    /\ CanCall("CoincidenceCounter")
    /\ \E cmd \in QueryCmds, r \in CountReplies, fail \in 0..2 :
          Commit("query", PyStr(<<cmd>>), CoincidenceCounter_query(M0(<<r>>, fail, None), cmd))
    /\ Counted

Call_CoincidenceCounter_close ==
    /\ cls = "CoincidenceCounter" /\ alive /\ closeCalls < MaxCloses
    /\ Commit("close", None, CoincidenceCounter_close(M0(<<>>, 0, None)))
    /\ closeCalls' = closeCalls + 1
    /\ UNCHANGED <<nops, alive>>

\* the interpreter finalises the object: __del__ runs once
Teardown_CoincidenceCounter ==
    /\ cls = "CoincidenceCounter" /\ alive
    /\ Commit("__del__", None, CoincidenceCounter_del(M0(<<>>, 0, None)))
    /\ alive' = FALSE
    /\ UNCHANGED <<nops, closeCalls>>

(***************************************************************************)
(* Calls on a MotorDriver, a BiPhotonSource and an LCC25.                   *)
(***************************************************************************)
Call_MotorDriver_position_get ==
    /\ CanCall("MotorDriver")
    /\ \E script \in Scripts(PositionReplies, MaxRecursion), fail \in 0..(2 * MaxRecursion) :
          Commit("position.get", None, MotorDriver_position_get(M0(script, fail, None), 1))
    /\ Counted

Call_MotorDriver_position_set ==
    /\ CanCall("MotorDriver")
    /\ \E value \in PositionValues, fail \in 0..1 :
          Commit("position.set", value, MotorDriver_position_set(M0(<<>>, fail, None), value))
    /\ Counted

Teardown_MotorDriver ==
    /\ cls = "MotorDriver" /\ alive
    /\ Commit("__del__", None, MotorDriver_del(M0(<<>>, 0, None)))
    /\ alive' = FALSE
    /\ UNCHANGED <<nops, closeCalls>>

Call_BiPhotonSource_temperature_get ==
    /\ CanCall("BiPhotonSource")
    /\ \E r \in SourceReplies, fail \in 0..2 :
          Commit("temperature.get", None, BiPhotonSource_temperature_get(M0(<<r>>, fail, None)))
    /\ Counted

Call_BiPhotonSource_temperature_setpoint_get ==
    /\ CanCall("BiPhotonSource")
    /\ \E r \in SourceReplies, fail \in 0..2 :
          Commit("temperature_setpoint.get", None, BiPhotonSource_temperature_setpoint_get(M0(<<r>>, fail, None)))
    /\ Counted

Call_BiPhotonSource_current_get ==
    /\ CanCall("BiPhotonSource")
    /\ \E r \in SourceReplies, fail \in 0..2 :
          Commit("current.get", None, BiPhotonSource_current_get(M0(<<r>>, fail, None)))
    /\ Counted

Call_BiPhotonSource_voltage_get ==
    /\ CanCall("BiPhotonSource")
    /\ \E r \in SourceReplies, fail \in 0..2 :
          Commit("voltage.get", None, BiPhotonSource_voltage_get(M0(<<r>>, fail, None)))
    /\ Counted

Call_BiPhotonSource_fault_status_get ==
    /\ CanCall("BiPhotonSource")
    /\ \E r \in SourceReplies, fail \in 0..2 :
          Commit("fault_status.get", None, BiPhotonSource_fault_status_get(M0(<<r>>, fail, None)))
    /\ Counted

Call_BiPhotonSource_heating_state_get ==
    /\ CanCall("BiPhotonSource")
    /\ \E r \in SourceReplies, fail \in 0..2 :
          Commit("heating_state.get", None, BiPhotonSource_heating_state_get(M0(<<r>>, fail, None)))
    /\ Counted

Call_BiPhotonSource_firmware_version_get ==
    /\ CanCall("BiPhotonSource")
    /\ \E r \in SourceReplies, fail \in 0..2 :
          Commit("firmware_version.get", None, BiPhotonSource_firmware_version_get(M0(<<r>>, fail, None)))
    /\ Counted

Call_BiPhotonSource_laser_on_get ==
    /\ CanCall("BiPhotonSource")
    /\ \E r \in SourceReplies, fail \in 0..2 :
          Commit("laser_on.get", None, BiPhotonSource_laser_on_get(M0(<<r>>, fail, None)))
    /\ Counted

Call_BiPhotonSource_laser_power_get ==
    /\ CanCall("BiPhotonSource")
    /\ \E r \in SourceReplies, fail \in 0..2 :
          Commit("laser_power.get", None, BiPhotonSource_laser_power_get(M0(<<r>>, fail, None)))
    /\ Counted

Call_BiPhotonSource_laser_current_get ==
    /\ CanCall("BiPhotonSource")
    /\ \E r \in SourceReplies, fail \in 0..2 :
          Commit("laser_current.get", None, BiPhotonSource_laser_current_get(M0(<<r>>, fail, None)))
    /\ Counted

Call_BiPhotonSource_laser_status_get ==
    /\ CanCall("BiPhotonSource")
    /\ \E r \in SourceReplies, fail \in 0..2 :
          Commit("laser_status.get", None, BiPhotonSource_laser_status_get(M0(<<r>>, fail, None)))
    /\ Counted

Call_BiPhotonSource_laser_id_get ==
    /\ CanCall("BiPhotonSource")
    /\ \E r \in SourceReplies, fail \in 0..2 :
          Commit("laser_id.get", None, BiPhotonSource_laser_id_get(M0(<<r>>, fail, None)))
    /\ Counted

Call_BiPhotonSource_laser_hours_get ==
    /\ CanCall("BiPhotonSource")
    /\ \E r \in SourceReplies, fail \in 0..2 :
          Commit("laser_hours.get", None, BiPhotonSource_laser_hours_get(M0(<<r>>, fail, None)))
    /\ Counted

Call_BiPhotonSource_laser_turnons_get ==
    /\ CanCall("BiPhotonSource")
    /\ \E r \in SourceReplies, fail \in 0..2 :
          Commit("laser_turnons.get", None, BiPhotonSource_laser_turnons_get(M0(<<r>>, fail, None)))
    /\ Counted

Call_BiPhotonSource_laser_info_get ==
    /\ CanCall("BiPhotonSource")
    /\ \E r \in SourceReplies, fail \in 0..2 :
          Commit("laser_info.get", None, BiPhotonSource_laser_info_get(M0(<<r>>, fail, None)))
    /\ Counted

Call_BiPhotonSource_laser_firmware_get ==
    /\ CanCall("BiPhotonSource")
    /\ \E r \in SourceReplies, fail \in 0..2 :
          Commit("laser_firmware.get", None, BiPhotonSource_laser_firmware_get(M0(<<r>>, fail, None)))
    /\ Counted

Call_BiPhotonSource_laser_model_get ==
    /\ CanCall("BiPhotonSource")
    /\ \E r \in SourceReplies, fail \in 0..2 :
          Commit("laser_model.get", None, BiPhotonSource_laser_model_get(M0(<<r>>, fail, None)))
    /\ Counted

Call_BiPhotonSource_laser_access_level_get ==
    /\ CanCall("BiPhotonSource")
    /\ \E r \in SourceReplies, fail \in 0..2 :
          Commit("laser_access_level.get", None, BiPhotonSource_laser_access_level_get(M0(<<r>>, fail, None)))
    /\ Counted

Call_BiPhotonSource_temperature_setpoint_set ==
    /\ CanCall("BiPhotonSource")
    /\ \E value \in SetpointValues, fail \in 0..1 :
          Commit("temperature_setpoint.set", value, BiPhotonSource_temperature_setpoint_set(M0(<<>>, fail, None), value))
    /\ Counted

Call_BiPhotonSource_laser_on_set ==
    /\ CanCall("BiPhotonSource")
    /\ \E value \in Booleans, fail \in 0..1 :
          Commit("laser_on.set", value, BiPhotonSource_laser_on_set(M0(<<>>, fail, None), value))
    /\ Counted

Call_BiPhotonSource_laser_power_set ==
    /\ CanCall("BiPhotonSource")
    /\ \E value \in PowerValues, fail \in 0..1 :
          Commit("laser_power.set", value, BiPhotonSource_laser_power_set(M0(<<>>, fail, None), value))
    /\ Counted

Call_BiPhotonSource_laser_current_set ==
    /\ CanCall("BiPhotonSource")
    /\ \E value \in CurrentValues, fail \in 0..1 :
          Commit("laser_current.set", value, BiPhotonSource_laser_current_set(M0(<<>>, fail, None), value))
    /\ Counted

Call_BiPhotonSource_enable_autostart ==
    /\ CanCall("BiPhotonSource")
    /\ \E fail \in 0..1 :
          Commit("enable_autostart", None, BiPhotonSource_enable_autostart(M0(<<>>, fail, None)))
    /\ Counted

Call_BiPhotonSource_disable_autostart ==
    /\ CanCall("BiPhotonSource")
    /\ \E fail \in 0..1 :
          Commit("disable_autostart", None, BiPhotonSource_disable_autostart(M0(<<>>, fail, None)))
    /\ Counted

Call_BiPhotonSource_save_settings ==
    /\ CanCall("BiPhotonSource")
    /\ \E fail \in 0..1 :
          Commit("save_settings", None, BiPhotonSource_save_settings(M0(<<>>, fail, None)))
    /\ Counted

Call_BiPhotonSource_change_access_level ==
    /\ CanCall("BiPhotonSource")
    /\ \E fail \in 0..1 :
          Commit("change_access_level", None, BiPhotonSource_change_access_level(M0(<<>>, fail, None)))
    /\ Counted

Call_BiPhotonSource_close ==
    /\ cls = "BiPhotonSource" /\ alive /\ closeCalls < MaxCloses
    /\ Commit("close", None, BiPhotonSource_close(M0(<<>>, 0, None)))
    /\ closeCalls' = closeCalls + 1
    /\ UNCHANGED <<nops, alive>>

Call_LCC25_output_mode_get ==
    /\ CanCall("LCC25")
    /\ \E out \in IntOuts, fail \in 0..1 :
          Commit("output_mode.get", None, LCC25_output_mode_get(M0(<<>>, fail, out)))
    /\ Counted

Call_LCC25_voltage1_get ==
    /\ CanCall("LCC25")
    /\ \E out \in DoubleOuts, fail \in 0..1 :
          Commit("voltage1.get", None, LCC25_voltage1_get(M0(<<>>, fail, out)))
    /\ Counted

Call_LCC25_voltage2_get ==
    /\ CanCall("LCC25")
    /\ \E out \in DoubleOuts, fail \in 0..1 :
          Commit("voltage2.get", None, LCC25_voltage2_get(M0(<<>>, fail, out)))
    /\ Counted

Call_LCC25_modulation_frequency_get ==
    /\ CanCall("LCC25")
    /\ \E out \in DoubleOuts, fail \in 0..1 :
          Commit("modulation_frequency.get", None, LCC25_modulation_frequency_get(M0(<<>>, fail, out)))
    /\ Counted

Call_LCC25_output_enable_get ==
    /\ CanCall("LCC25")
    /\ \E out \in IntOuts, fail \in 0..1 :
          Commit("output_enable.get", None, LCC25_output_enable_get(M0(<<>>, fail, out)))
    /\ Counted

Call_LCC25_output_mode_set ==
    /\ CanCall("LCC25")
    /\ \E value \in ModeNames, fail \in 0..1 :
          Commit("output_mode.set", value, LCC25_output_mode_set(M0(<<>>, fail, None), value))
    /\ Counted

Call_LCC25_voltage1_set ==
    /\ CanCall("LCC25")
    /\ \E value \in VoltageValues, fail \in 0..1 :
          Commit("voltage1.set", value, LCC25_voltage1_set(M0(<<>>, fail, None), value))
    /\ Counted

Call_LCC25_voltage2_set ==
    /\ CanCall("LCC25")
    /\ \E value \in VoltageValues, fail \in 0..1 :
          Commit("voltage2.set", value, LCC25_voltage2_set(M0(<<>>, fail, None), value))
    /\ Counted

Call_LCC25_modulation_frequency_set ==
    /\ CanCall("LCC25")
    /\ \E value \in FrequencyValues, fail \in 0..1 :
          Commit("modulation_frequency.set", value, LCC25_modulation_frequency_set(M0(<<>>, fail, None), value))
    /\ Counted

Call_LCC25_output_enable_set ==
    /\ CanCall("LCC25")
    /\ \E value \in Booleans, fail \in 0..1 :
          Commit("output_enable.set", value, LCC25_output_enable_set(M0(<<>>, fail, None), value))
    /\ Counted

Call_LCC25_close ==
    /\ cls = "LCC25" /\ alive /\ closeCalls < MaxCloses
    /\ Commit("close", None, LCC25_close(M0(<<>>, 0, None)))
    /\ closeCalls' = closeCalls + 1
    /\ UNCHANGED <<nops, alive>>

\* the object is dropped: the class has no __del__; the serial.Serial it owns is
\* finalised with it, and the finaliser of an io stream closes it
Teardown_BiPhotonSource ==
    /\ cls = "BiPhotonSource" /\ alive
    /\ Commit("__del__", None, SerialClose(M0(<<>>, 0, None)))
    /\ alive' = FALSE
    /\ UNCHANGED <<nops, closeCalls>>

\* the object is dropped: the class has no __del__ and nothing releases the handle
Teardown_LCC25 ==
    /\ cls = "LCC25" /\ alive
    /\ Commit("__del__", None, M0(<<>>, 0, None))
    /\ alive' = FALSE
    /\ UNCHANGED <<nops, closeCalls>>

Next ==
    \/ Call_CoincidenceCounter_dwell_time_get
    \/ Call_CoincidenceCounter_dwell_time_set
    \/ Call_CoincidenceCounter_coincidence_window_get
    \/ Call_CoincidenceCounter_coincidence_window_set
    \/ Call_CoincidenceCounter_ch1_delay_get
    \/ Call_CoincidenceCounter_ch1_delay_set
    \/ Call_CoincidenceCounter_measure_channels
    \/ Call_CoincidenceCounter_query
    \/ Call_CoincidenceCounter_close
    \/ Teardown_CoincidenceCounter
    \/ Call_MotorDriver_position_get
    \/ Call_MotorDriver_position_set
    \/ Teardown_MotorDriver
    \/ Call_BiPhotonSource_temperature_get
    \/ Call_BiPhotonSource_temperature_setpoint_get
    \/ Call_BiPhotonSource_current_get
    \/ Call_BiPhotonSource_voltage_get
    \/ Call_BiPhotonSource_fault_status_get
    \/ Call_BiPhotonSource_heating_state_get
    \/ Call_BiPhotonSource_firmware_version_get
    \/ Call_BiPhotonSource_laser_on_get
    \/ Call_BiPhotonSource_laser_power_get
    \/ Call_BiPhotonSource_laser_current_get
    \/ Call_BiPhotonSource_laser_status_get
    \/ Call_BiPhotonSource_laser_id_get
    \/ Call_BiPhotonSource_laser_hours_get
    \/ Call_BiPhotonSource_laser_turnons_get
    \/ Call_BiPhotonSource_laser_info_get
    \/ Call_BiPhotonSource_laser_firmware_get
    \/ Call_BiPhotonSource_laser_model_get
    \/ Call_BiPhotonSource_laser_access_level_get
    \/ Call_BiPhotonSource_temperature_setpoint_set
    \/ Call_BiPhotonSource_laser_on_set
    \/ Call_BiPhotonSource_laser_power_set
    \/ Call_BiPhotonSource_laser_current_set
    \/ Call_BiPhotonSource_enable_autostart
    \/ Call_BiPhotonSource_disable_autostart
    \/ Call_BiPhotonSource_save_settings
    \/ Call_BiPhotonSource_change_access_level
    \/ Call_BiPhotonSource_close
    \/ Call_LCC25_output_mode_get
    \/ Call_LCC25_voltage1_get
    \/ Call_LCC25_voltage2_get
    \/ Call_LCC25_modulation_frequency_get
    \/ Call_LCC25_output_enable_get
    \/ Call_LCC25_output_mode_set
    \/ Call_LCC25_voltage1_set
    \/ Call_LCC25_voltage2_set
    \/ Call_LCC25_modulation_frequency_set
    \/ Call_LCC25_output_enable_set
    \/ Call_LCC25_close
    \/ Teardown_BiPhotonSource
    \/ Teardown_LCC25

Spec == Init /\ [][Next]_vars

\* ---------------------------------------------------------------------------
\* Two sessions of one class on identical transports
\* ---------------------------------------------------------------------------

\* The calls a caller can make on a session of class c, each with its argument and
\* with what the transport does during the call: the lines it delivers and which of
\* its operations fails (one of fails; 0 for none).
Calls(c, fails) ==
    CASE c = "CoincidenceCounter" ->
           {[op |-> "dwell_time.get", arg |-> None, replies |-> <<r>>, fail |-> fail, out |-> None] :
               r \in DwellReplies, fail \in fails \cap 0..2}
           \cup {[op |-> "dwell_time.set", arg |-> value, replies |-> <<>>, fail |-> fail, out |-> None] :
               value \in DwellValues, fail \in fails \cap 0..1}
           \cup {[op |-> "coincidence_window.get", arg |-> None, replies |-> <<r>>, fail |-> fail, out |-> None] :
               r \in CountReplies \cup {BadLine}, fail \in fails \cap 0..2}
           \cup {[op |-> "coincidence_window.set", arg |-> value, replies |-> <<>>, fail |-> fail, out |-> None] :
               value \in WindowValues, fail \in fails \cap 0..1}
           \cup {[op |-> "ch1_delay.get", arg |-> None, replies |-> <<r>>, fail |-> fail, out |-> None] :
               r \in CountReplies \cup {BadLine}, fail \in fails \cap 0..2}
           \cup {[op |-> "ch1_delay.set", arg |-> value, replies |-> <<>>, fail |-> fail, out |-> None] :
               value \in DelayValues, fail \in fails \cap 0..1}
           \cup {[op |-> "measure_channels", arg |-> None, replies |-> <<r0, r1, r2, r3>>, fail |-> fail, out |-> None] :
               r0 \in ArmReplies, r1 \in MeasureReplies, r2 \in MeasureReplies, r3 \in MeasureReplies, fail \in fails \cap 0..8}
           \cup {[op |-> "query", arg |-> PyStr(<<cmd>>), replies |-> <<r>>, fail |-> fail, out |-> None] :
               cmd \in QueryCmds, r \in CountReplies, fail \in fails \cap 0..2}
      [] c = "MotorDriver" ->
           {[op |-> "position.get", arg |-> None, replies |-> script, fail |-> fail, out |-> None] :
               script \in Scripts(PositionReplies, MaxRecursion), fail \in fails \cap 0..(2 * MaxRecursion)}
           \cup {[op |-> "position.set", arg |-> value, replies |-> <<>>, fail |-> fail, out |-> None] :
               value \in PositionValues, fail \in fails \cap 0..1}
      [] c = "BiPhotonSource" ->
           {[op |-> "temperature.get", arg |-> None, replies |-> <<r>>, fail |-> fail, out |-> None] :
               r \in SourceReplies, fail \in fails \cap 0..2}
           \cup {[op |-> "temperature_setpoint.get", arg |-> None, replies |-> <<r>>, fail |-> fail, out |-> None] :
               r \in SourceReplies, fail \in fails \cap 0..2}
           \cup {[op |-> "current.get", arg |-> None, replies |-> <<r>>, fail |-> fail, out |-> None] :
               r \in SourceReplies, fail \in fails \cap 0..2}
           \cup {[op |-> "voltage.get", arg |-> None, replies |-> <<r>>, fail |-> fail, out |-> None] :
               r \in SourceReplies, fail \in fails \cap 0..2}
           \cup {[op |-> "fault_status.get", arg |-> None, replies |-> <<r>>, fail |-> fail, out |-> None] :
               r \in SourceReplies, fail \in fails \cap 0..2}
           \cup {[op |-> "heating_state.get", arg |-> None, replies |-> <<r>>, fail |-> fail, out |-> None] :
               r \in SourceReplies, fail \in fails \cap 0..2}
           \cup {[op |-> "firmware_version.get", arg |-> None, replies |-> <<r>>, fail |-> fail, out |-> None] :
               r \in SourceReplies, fail \in fails \cap 0..2}
           \cup {[op |-> "laser_on.get", arg |-> None, replies |-> <<r>>, fail |-> fail, out |-> None] :
               r \in SourceReplies, fail \in fails \cap 0..2}
           \cup {[op |-> "laser_power.get", arg |-> None, replies |-> <<r>>, fail |-> fail, out |-> None] :
               r \in SourceReplies, fail \in fails \cap 0..2}
           \cup {[op |-> "laser_current.get", arg |-> None, replies |-> <<r>>, fail |-> fail, out |-> None] :
               r \in SourceReplies, fail \in fails \cap 0..2}
           \cup {[op |-> "laser_status.get", arg |-> None, replies |-> <<r>>, fail |-> fail, out |-> None] :
               r \in SourceReplies, fail \in fails \cap 0..2}
           \cup {[op |-> "laser_id.get", arg |-> None, replies |-> <<r>>, fail |-> fail, out |-> None] :
               r \in SourceReplies, fail \in fails \cap 0..2}
           \cup {[op |-> "laser_hours.get", arg |-> None, replies |-> <<r>>, fail |-> fail, out |-> None] :
               r \in SourceReplies, fail \in fails \cap 0..2}
           \cup {[op |-> "laser_turnons.get", arg |-> None, replies |-> <<r>>, fail |-> fail, out |-> None] :
               r \in SourceReplies, fail \in fails \cap 0..2}
           \cup {[op |-> "laser_info.get", arg |-> None, replies |-> <<r>>, fail |-> fail, out |-> None] :
               r \in SourceReplies, fail \in fails \cap 0..2}
           \cup {[op |-> "laser_firmware.get", arg |-> None, replies |-> <<r>>, fail |-> fail, out |-> None] :
               r \in SourceReplies, fail \in fails \cap 0..2}
           \cup {[op |-> "laser_model.get", arg |-> None, replies |-> <<r>>, fail |-> fail, out |-> None] :
               r \in SourceReplies, fail \in fails \cap 0..2}
           \cup {[op |-> "laser_access_level.get", arg |-> None, replies |-> <<r>>, fail |-> fail, out |-> None] :
               r \in SourceReplies, fail \in fails \cap 0..2}
           \cup {[op |-> "temperature_setpoint.set", arg |-> value, replies |-> <<>>, fail |-> fail, out |-> None] :
               value \in SetpointValues, fail \in fails \cap 0..1}
           \cup {[op |-> "laser_on.set", arg |-> value, replies |-> <<>>, fail |-> fail, out |-> None] :
               value \in Booleans, fail \in fails \cap 0..1}
           \cup {[op |-> "laser_power.set", arg |-> value, replies |-> <<>>, fail |-> fail, out |-> None] :
               value \in PowerValues, fail \in fails \cap 0..1}
           \cup {[op |-> "laser_current.set", arg |-> value, replies |-> <<>>, fail |-> fail, out |-> None] :
               value \in CurrentValues, fail \in fails \cap 0..1}
           \cup {[op |-> "enable_autostart", arg |-> None, replies |-> <<>>, fail |-> fail, out |-> None] :
               fail \in fails \cap 0..1}
           \cup {[op |-> "disable_autostart", arg |-> None, replies |-> <<>>, fail |-> fail, out |-> None] :
               fail \in fails \cap 0..1}
           \cup {[op |-> "save_settings", arg |-> None, replies |-> <<>>, fail |-> fail, out |-> None] :
               fail \in fails \cap 0..1}
           \cup {[op |-> "change_access_level", arg |-> None, replies |-> <<>>, fail |-> fail, out |-> None] :
               fail \in fails \cap 0..1}
      [] c = "LCC25" ->
           {[op |-> "output_mode.get", arg |-> None, replies |-> <<>>, fail |-> fail, out |-> out] :
               out \in IntOuts, fail \in fails \cap 0..1}
           \cup {[op |-> "voltage1.get", arg |-> None, replies |-> <<>>, fail |-> fail, out |-> out] :
               out \in DoubleOuts, fail \in fails \cap 0..1}
           \cup {[op |-> "voltage2.get", arg |-> None, replies |-> <<>>, fail |-> fail, out |-> out] :
               out \in DoubleOuts, fail \in fails \cap 0..1}
           \cup {[op |-> "modulation_frequency.get", arg |-> None, replies |-> <<>>, fail |-> fail, out |-> out] :
               out \in DoubleOuts, fail \in fails \cap 0..1}
           \cup {[op |-> "output_enable.get", arg |-> None, replies |-> <<>>, fail |-> fail, out |-> out] :
               out \in IntOuts, fail \in fails \cap 0..1}
           \cup {[op |-> "output_mode.set", arg |-> value, replies |-> <<>>, fail |-> fail, out |-> None] :
               value \in ModeNames, fail \in fails \cap 0..1}
           \cup {[op |-> "voltage1.set", arg |-> value, replies |-> <<>>, fail |-> fail, out |-> None] :
               value \in VoltageValues, fail \in fails \cap 0..1}
           \cup {[op |-> "voltage2.set", arg |-> value, replies |-> <<>>, fail |-> fail, out |-> None] :
               value \in VoltageValues, fail \in fails \cap 0..1}
           \cup {[op |-> "modulation_frequency.set", arg |-> value, replies |-> <<>>, fail |-> fail, out |-> None] :
               value \in FrequencyValues, fail \in fails \cap 0..1}
           \cup {[op |-> "output_enable.set", arg |-> value, replies |-> <<>>, fail |-> fail, out |-> None] :
               value \in Booleans, fail \in fails \cap 0..1}

\* The method a call names, run on the session and transport m.
Run(call, m) ==
    CASE call.op = "dwell_time.get" -> CoincidenceCounter_dwell_time_get(m)
      [] call.op = "dwell_time.set" -> CoincidenceCounter_dwell_time_set(m, call.arg)
      [] call.op = "coincidence_window.get" -> CoincidenceCounter_coincidence_window_get(m)
      [] call.op = "coincidence_window.set" -> CoincidenceCounter_coincidence_window_set(m, call.arg)
      [] call.op = "ch1_delay.get" -> CoincidenceCounter_ch1_delay_get(m)
      [] call.op = "ch1_delay.set" -> CoincidenceCounter_ch1_delay_set(m, call.arg)
      [] call.op = "measure_channels" -> CoincidenceCounter_measure_channels(m)
      [] call.op = "query" -> CoincidenceCounter_query(m, call.arg.s[1])
      [] call.op = "position.get" -> MotorDriver_position_get(m, 1)
      [] call.op = "position.set" -> MotorDriver_position_set(m, call.arg)
      [] call.op = "temperature.get" -> BiPhotonSource_temperature_get(m)
      [] call.op = "temperature_setpoint.get" -> BiPhotonSource_temperature_setpoint_get(m)
      [] call.op = "current.get" -> BiPhotonSource_current_get(m)
      [] call.op = "voltage.get" -> BiPhotonSource_voltage_get(m)
      [] call.op = "fault_status.get" -> BiPhotonSource_fault_status_get(m)
      [] call.op = "heating_state.get" -> BiPhotonSource_heating_state_get(m)
      [] call.op = "firmware_version.get" -> BiPhotonSource_firmware_version_get(m)
      [] call.op = "laser_on.get" -> BiPhotonSource_laser_on_get(m)
      [] call.op = "laser_power.get" -> BiPhotonSource_laser_power_get(m)
      [] call.op = "laser_current.get" -> BiPhotonSource_laser_current_get(m)
      [] call.op = "laser_status.get" -> BiPhotonSource_laser_status_get(m)
      [] call.op = "laser_id.get" -> BiPhotonSource_laser_id_get(m)
      [] call.op = "laser_hours.get" -> BiPhotonSource_laser_hours_get(m)
      [] call.op = "laser_turnons.get" -> BiPhotonSource_laser_turnons_get(m)
      [] call.op = "laser_info.get" -> BiPhotonSource_laser_info_get(m)
      [] call.op = "laser_firmware.get" -> BiPhotonSource_laser_firmware_get(m)
      [] call.op = "laser_model.get" -> BiPhotonSource_laser_model_get(m)
      [] call.op = "laser_access_level.get" -> BiPhotonSource_laser_access_level_get(m)
      [] call.op = "temperature_setpoint.set" -> BiPhotonSource_temperature_setpoint_set(m, call.arg)
      [] call.op = "laser_on.set" -> BiPhotonSource_laser_on_set(m, call.arg)
      [] call.op = "laser_power.set" -> BiPhotonSource_laser_power_set(m, call.arg)
      [] call.op = "laser_current.set" -> BiPhotonSource_laser_current_set(m, call.arg)
      [] call.op = "enable_autostart" -> BiPhotonSource_enable_autostart(m)
      [] call.op = "disable_autostart" -> BiPhotonSource_disable_autostart(m)
      [] call.op = "save_settings" -> BiPhotonSource_save_settings(m)
      [] call.op = "change_access_level" -> BiPhotonSource_change_access_level(m)
      [] call.op = "output_mode.get" -> LCC25_output_mode_get(m)
      [] call.op = "voltage1.get" -> LCC25_voltage1_get(m)
      [] call.op = "voltage2.get" -> LCC25_voltage2_get(m)
      [] call.op = "modulation_frequency.get" -> LCC25_modulation_frequency_get(m)
      [] call.op = "output_enable.get" -> LCC25_output_enable_get(m)
      [] call.op = "output_mode.set" -> LCC25_output_mode_set(m, call.arg)
      [] call.op = "voltage1.set" -> LCC25_voltage1_set(m, call.arg)
      [] call.op = "voltage2.set" -> LCC25_voltage2_set(m, call.arg)
      [] call.op = "modulation_frequency.set" -> LCC25_modulation_frequency_set(m, call.arg)
      [] call.op = "output_enable.set" -> LCC25_output_enable_set(m, call.arg)

\* One caller makes a call on the session; the twin session, which has the same
\* transport, the same comm_wait and the same replies, either makes the very same
\* call (both) or sits the call out, which is how the two caches come to differ.
Twin_Call ==
    /\ alive /\ nops < MaxOps
    /\ \E call \in Calls(cls, 0..(2 * MaxRecursion + 2)), both \in BOOLEAN :
          \E a \in {Run(call, M0(call.replies, call.fail, call.out))},
             b \in {IF both
                    THEN Run(call, [M0(call.replies, call.fail, call.out) EXCEPT !.attrs = twin.attrs])
                    ELSE [M0(<<>>, 0, None) EXCEPT !.attrs = twin.attrs]} :
              /\ attrs' = a.attrs
              /\ is_open' = a.is_open
              /\ handle' = a.handle
              /\ released' = a.released
              /\ last' = [op |-> call.op, arg |-> call.arg, ev |-> a.ev, err |-> a.err,
                          ret |-> IF a.err = "" THEN a.ret ELSE <<>>,
                          replies |-> a.used, out |-> a.out, pre |-> attrs, preOpen |-> is_open]
              /\ twin' = [attrs |-> b.attrs, pre |-> twin.attrs, both |-> both,
                          ev |-> b.ev, err |-> b.err,
                          ret |-> IF b.err = "" /\ both THEN b.ret ELSE <<>>]
    /\ Counted
    /\ UNCHANGED <<cls, comm_wait, pc, wire>>

\* Two freshly constructed sessions of the same class with the same arguments.
TwinInit ==
    /\ released = 0
    /\ closeCalls = 0
    /\ nops = 0
    /\ \/ CoincidenceCounter_init
       \/ MotorDriver_init
       \/ BiPhotonSource_init
       \/ LCC25_init
    /\ twin = [attrs |-> attrs, pre |-> attrs, both |-> FALSE, ev |-> <<>>, err |-> "", ret |-> <<>>]
    /\ pc = <<>>
    /\ wire = <<>>

SpecTwin == TwinInit /\ [][Twin_Call]_vars

\* ---------------------------------------------------------------------------
\* Two callers on one session
\* ---------------------------------------------------------------------------

\* The commands that carry the query marker: the device answers each with one
\* line, which is on the wire by the time the settle sleep is over.
Answered ==
    {"DWEL?\n", "WIND?\n", "DELA?\n", "COUN:C1?\n", "COUN:C2?\n", "COUN:CO?\n", "FIRM?\n",
     "POSI?\n",
     "TEMP?\r\n", "SETP?\r\n", "CURR?\r\n", "VOLT?\r\n", "FAUL?\r\n", "HORC?\r\n",
     "FIRM?\r\n", "PLST?\r\n", "PLDC?\r\n", "PLCR?\r\n", "PLID?\r\n", "PLOH?\r\n",
     "PLTO?\r\n", "PLIN?\r\n", "PLFM?\r\n", "PLMD?\r\n", "PLAC?\r\n"}

\* One session on a serial port, shared by two callers, both outside any call.
ConcInit ==
    /\ released = 0
    /\ closeCalls = 0
    /\ nops = 0
    /\ \/ CoincidenceCounter_init
       \/ MotorDriver_init
       \/ BiPhotonSource_init
    /\ twin = <<>>
    /\ pc = [c \in {1, 2} |-> [busy |-> FALSE, began |-> FALSE, call |-> <<>>, got |-> <<>>,
                               n |-> 0, asked |-> "", heard |-> <<>>]]
    /\ wire = <<>>

\* Caller c enters a method of the session.  A caller is inside one call at a time:
\* every method blocks until it returns or raises.  The lines of the call come from
\* the wire, and no transport operation fails.
Conc_begin(c) ==
    /\ alive /\ nops < MaxOps
    /\ ~pc[c].busy
    /\ \E call \in {[x EXCEPT !.replies = <<>>] : x \in Calls(cls, {0})} :
          pc' = [pc EXCEPT ![c] = [busy |-> TRUE, began |-> TRUE, call |-> call, got |-> <<>>,
                                   n |-> 0, asked |-> "", heard |-> <<>>]]
    /\ Counted
    /\ UNCHANGED <<cls, comm_wait, attrs, is_open, handle, released, last, twin, wire>>

\* Caller c, inside a call, makes the call's next transport step, which the lines
\* it has read so far determine: a write with the settle sleep that follows it, or
\* a readline; the step that leaves nothing more to do also returns or raises.
\* Nothing orders the steps of the two callers.  A write hands the command to the
\* device, a readline takes the oldest line on the wire, whoever asked for it, and
\* returns no line at the timeout if there is none.
Conc_step(c) ==
    /\ pc[c].busy
    /\ \E before \in {Run(pc[c].call, M0(pc[c].got, 0, None)).ev} :
       LET p == pc[c]
           none == p.n = Len(before)
           e == before[p.n + 1]
           reads == ~none /\ e.k = "read"
           answer == CASE cls = "BiPhotonSource" -> <<"2", "5", "0", "0", "0", "\r", "\n">>
                       [] cls = "MotorDriver" -> <<"1", "4", ".", "5", "\n">>
                       [] OTHER -> <<"1", "0", "\n">>
           got == IF reads THEN Append(p.got, IF wire = <<>> THEN NoLine ELSE Head(wire).line)
                  ELSE p.got
           n1 == IF none THEN p.n ELSE p.n + 1
       IN  \E after \in {Run(p.call, M0(got, 0, None))} :
           LET n2 == IF n1 < Len(after.ev) /\ after.ev[n1 + 1].k = "sleep" THEN n1 + 1 ELSE n1
               done == n2 = Len(after.ev)
           IN  /\ wire' = IF none THEN wire
                          ELSE IF reads THEN (IF wire = <<>> THEN wire ELSE Tail(wire))
                          ELSE IF e.d \in Answered
                               THEN Append(wire, [by |-> c, cmd |-> e.d, line |-> answer])
                               ELSE wire
               /\ pc' = [pc EXCEPT ![c] =
                            [busy |-> ~done, began |-> TRUE,
                             call |-> IF done THEN <<>> ELSE p.call,
                             got |-> IF done THEN <<>> ELSE got,
                             n |-> IF done THEN 0 ELSE n2,
                             asked |-> IF done THEN "" ELSE IF none \/ reads THEN p.asked ELSE e.d,
                             heard |-> IF reads
                                       THEN Append(p.heard,
                                                   [op |-> p.call.op, asked |-> p.asked,
                                                    by |-> IF wire = <<>> THEN 0 ELSE Head(wire).by,
                                                    cmd |-> IF wire = <<>> THEN "" ELSE Head(wire).cmd,
                                                    inflight |-> Len(wire)])
                                       ELSE p.heard]]
               /\ attrs' = IF done THEN after.attrs ELSE attrs
               /\ last' = IF done
                          THEN [op |-> p.call.op, arg |-> p.call.arg, ev |-> after.ev,
                                err |-> after.err,
                                ret |-> IF after.err = "" THEN after.ret ELSE <<>>,
                                replies |-> after.used, out |-> after.out, pre |-> attrs,
                                preOpen |-> is_open]
                          ELSE last
    /\ UNCHANGED <<cls, comm_wait, is_open, handle, released, closeCalls, alive, nops, twin>>

ConcNext ==
    \/ \E c \in DOMAIN pc : Conc_begin(c)
    \/ \E c \in DOMAIN pc : Conc_step(c)

SpecConc == ConcInit /\ [][ConcNext]_vars

(***************************************************************************)
(* What the specification says of each attribute: its domain, its set       *)
(* command, its decode rule and the cache entry that holds it.  These are   *)
(* the claims' side of the comparison, not read off the code.               *)
(***************************************************************************)
IsWrite(e) == e.k = "write"

IsHardwareCall(e) == e.k \in {"write", "dll"}

Writes == SelectSeq(last.ev, IsWrite)

SetterOps == {"temperature_setpoint.set", "laser_on.set", "laser_power.set", "laser_current.set", "dwell_time.set", "coincidence_window.set",
              "ch1_delay.set", "position.set", "output_mode.set", "voltage1.set", "voltage2.set", "modulation_frequency.set", "output_enable.set"}

GetterOps == {"temperature.get", "temperature_setpoint.get", "current.get", "voltage.get", "fault_status.get", "heating_state.get",
              "firmware_version.get", "laser_on.get", "laser_power.get", "laser_current.get", "laser_status.get", "laser_id.get",
              "laser_hours.get", "laser_turnons.get", "laser_info.get", "laser_firmware.get", "laser_model.get", "laser_access_level.get",
              "dwell_time.get", "coincidence_window.get", "ch1_delay.get", "position.get", "output_mode.get", "voltage1.get",
              "voltage2.get", "modulation_frequency.get", "output_enable.get"}

BoundedSetterOps == {"temperature_setpoint.set", "laser_power.set", "laser_current.set", "dwell_time.set", "coincidence_window.set",
                     "ch1_delay.set", "position.set", "voltage1.set", "voltage2.set", "modulation_frequency.set"}

Between(lo, v, hi) == IsNum(v) /\ lo <= Milli(v) /\ Milli(v) <= hi

\* the domain table of the validator
SpecDomain(op, v) ==
    CASE op = "temperature_setpoint.set" -> Between(10000000, v, 50000000)
      [] op = "laser_power.set" -> Between(0, v, 8000000)
      [] op = "laser_current.set" -> Between(20000, v, 120000)
      [] op = "dwell_time.set" -> Between(100, v, 30000)
      [] op = "coincidence_window.set" -> IsNum(v) /\ Milli(v) \in {1000, 2000, 3000, 4000, 5000, 6000, 7000, 8000}
      [] op = "ch1_delay.set" -> IsNum(v) /\ Milli(v) \in {0, 2000, 4000, 6000, 8000, 10000, 12000, 14000}
      [] op = "position.set" -> Between(1000, v, 29000)
      [] op \in {"voltage1.set", "voltage2.set"} -> Between(0, v, 25000)
      [] op = "modulation_frequency.set" -> Between(5000, v, 150000)
      [] op = "output_mode.set" -> v.s \in {<<"modulation">>, <<"voltage1">>, <<"voltage2">>}
      [] OTHER -> TRUE

\* the bytes of the set command of the wire-protocol table
SpecSetCommand(op, v) ==
    CASE op = "temperature_setpoint.set" -> ":SETT " \o Format(v) \o "\r\n"
      [] op = "laser_on.set" -> IF Truthy(v) THEN ":PLON\r\n" ELSE ":PLOF\r\n"
      [] op = "laser_power.set" -> ":PLDC " \o Format(v) \o "\r\n"
      [] op = "laser_current.set" -> ":PLSD " \o Format(v) \o "\r\n"
      [] op = "dwell_time.set" -> ":DWEL " \o Format(v) \o "\n"
      [] op = "coincidence_window.set" -> ":WIND " \o Format(v) \o "\n"
      [] op = "ch1_delay.set" -> ":DELA " \o Format(v) \o "\n"
      [] op = "position.set" -> ":MOVE ABS " \o Format(v) \o "\n"
      [] OTHER -> ""

\* the cache entry of the attribute an operation gets or sets
CacheAttr(op) ==
    CASE op \in {"temperature.get"} -> "_temperature"
      [] op \in {"temperature_setpoint.get", "temperature_setpoint.set"} -> "_temperature_setpoint"
      [] op = "current.get" -> "_current"
      [] op = "voltage.get" -> "_voltage"
      [] op = "fault_status.get" -> "_fault_status"
      [] op = "heating_state.get" -> "_heating_state"
      [] op = "firmware_version.get" -> "_firmware_version"
      [] op \in {"laser_on.get", "laser_on.set"} -> "_laser_on"
      [] op \in {"laser_power.get", "laser_power.set"} -> "_laser_power"
      [] op \in {"laser_current.get", "laser_current.set"} -> "_laser_current"
      [] op = "laser_status.get" -> "_laser_status"
      [] op = "laser_id.get" -> "_laser_id"
      [] op = "laser_hours.get" -> "_laser_hours"
      [] op = "laser_turnons.get" -> "_laser_turnons"
      [] op = "laser_info.get" -> "_laser_info"
      [] op = "laser_firmware.get" -> "_laser_firmware"
      [] op = "laser_model.get" -> "_laser_model"
      [] op = "laser_access_level.get" -> "_laser_access_level"
      [] op \in {"dwell_time.get", "dwell_time.set"} -> "_dwell_time"
      [] op \in {"coincidence_window.get", "coincidence_window.set"} -> "_coincidence_window"
      [] op \in {"ch1_delay.get", "ch1_delay.set"} -> "_ch1_delay"
      [] op \in {"position.get", "position.set"} -> "_position"
      [] op \in {"output_mode.get", "output_mode.set"} -> "_output_mode"
      [] op \in {"voltage1.get", "voltage1.set"} -> "_voltage1"
      [] op \in {"voltage2.get", "voltage2.set"} -> "_voltage2"
      [] op \in {"modulation_frequency.get", "modulation_frequency.set"} -> "_modulation_frequency"
      [] op \in {"output_enable.get", "output_enable.set"} -> "_output_enable"
      [] OTHER -> "_none"

IsCached(op) == CacheAttr(op) \in DOMAIN attrs

\* the leading digits and dots of a reply that carries a unit suffix
RECURSIVE NumericPrefix(_)
NumericPrefix(cs) == IF cs # <<>> /\ (IsDigit(Head(cs)) \/ Head(cs) = ".") THEN <<Head(cs)>> \o NumericPrefix(Tail(cs)) ELSE <<>>

\* the decode rule of the response parser applied to a reply line
SpecParse(op, reply) ==
    CASE op \in {"temperature_setpoint.get", "fault_status.get", "laser_power.get", "laser_hours.get", "laser_turnons.get",
                 "laser_access_level.get", "coincidence_window.get", "ch1_delay.get"} -> ParseInt(Strip(reply))
      [] op \in {"temperature.get", "current.get", "voltage.get", "laser_current.get", "position.get"} -> ParseFloat(Strip(reply))
      [] op = "dwell_time.get" -> ParseFloat(NumericPrefix(Strip(reply)))
      [] op = "laser_on.get" -> PyBool(Contains(Upper(Strip(reply)), <<"A", "P", "C">>))
      [] OTHER -> PyStr(Strip(reply))

\* the transport's answer an LCC25 getter or a serial getter turned into its result
LastReply == IF last.replies = <<>> THEN <<>> ELSE last.replies[Len(last.replies)]

(***************************************************************************)
(* Claims.                                                                  *)
(***************************************************************************)

C2_SetWritesOnceThenCaches ==
    (last.op \in SetterOps /\ SpecDomain(last.op, last.arg) /\ last.err = "")
        => /\ Writes = <<Ev("write", SpecSetCommand(last.op, last.arg), 0)>>
           /\ IsCached(last.op)
           /\ attrs[CacheAttr(last.op)] = last.arg

\* C3: every getter that gets a well-formed reply returns the parsed reply, and
\* afterwards the cached value of the attribute equals the returned value.
C3_GetReturnsParsedAndCaches ==
    (last.op \in GetterOps /\ last.err = "")
        => /\ Len(last.ret) = 1
           /\ IF cls = "LCC25" THEN PyEq(last.ret[1], last.out)
              ELSE SpecParse(last.op, LastReply).t # "error" /\ PyEq(last.ret[1], SpecParse(last.op, LastReply))
           /\ IsCached(last.op)
           /\ PyEq(attrs[CacheAttr(last.op)], last.ret[1])

\* C4: a second (or later) close() of a session does not raise, releases nothing
\* again, issues no second DLL close, and leaves a closed transport closed.
C4_CloseIdempotent ==
    (last.op = "close" /\ closeCalls >= 2)
        => /\ last.err = ""
           /\ released <= 1
           /\ cls = "LCC25" => last.ev = <<>>
           /\ ~last.preOpen => ~is_open
           /\ attrs = last.pre

\* C4 witness: an LCC25 with a non-zero handle has been closed twice
C4_Witness == cls = "LCC25" /\ last.op = "close" /\ closeCalls = 2 /\ ~is_open /\ handle = None /\ released = 1

\* C5: once close() has been called on a session that was opened successfully, the
\* transport has been released exactly once, whatever is called afterwards.
C5_ReleasedExactlyOnce == closeCalls >= 1 => released = 1

C7_LaserVerbs ==
    cls = "BiPhotonSource"
        => /\ (last.op = "laser_power.set" /\ last.err = "") => Writes = <<Ev("write", ":PLDC " \o Format(last.arg) \o "\r\n", 0)>>
           /\ (last.op = "laser_current.set" /\ last.err = "") => Writes = <<Ev("write", ":PLSD " \o Format(last.arg) \o "\r\n", 0)>>
           /\ (last.op = "laser_power.get" /\ Writes # <<>>) => Writes = <<Ev("write", "PLDC?\r\n", 0)>>
           /\ (last.op = "laser_current.get" /\ Writes # <<>>) => Writes = <<Ev("write", "PLCR?\r\n", 0)>>
           /\ (last.op \in {"laser_power.set", "laser_current.set"} /\ ~SpecDomain(last.op, last.arg)) => last.err = "ValueError"

\* C8: on BiPhotonSource the temperature setpoint setter writes SETT <n>, the getter
\* queries SETT? and returns the integer parsed from the reply to that query.
C8_SetpointVerb ==
    cls = "BiPhotonSource"
        => /\ (last.op = "temperature_setpoint.set" /\ last.err = "") => Writes = <<Ev("write", ":SETT " \o Format(last.arg) \o "\r\n", 0)>>
           /\ (last.op = "temperature_setpoint.get" /\ Writes # <<>>) => Writes = <<Ev("write", "SETT?\r\n", 0)>>
           /\ (last.op = "temperature_setpoint.get" /\ last.err = "") => last.ret = <<ParseInt(Strip(LastReply))>>

\* C9: measure_channels on an open session whose transport works and answers with
\* integers makes four round-trips in the order COUN:ON, COUN:C1?, COUN:C2?,
\* COUN:CO?, each write followed by its read, sleeps at least dwell time plus
\* comm_delay between the arm write and the arm read, and returns the three counts.
C9_MeasureChannels ==
    (cls = "CoincidenceCounter" /\ last.op = "measure_channels" /\ last.preOpen
       /\ last.err \notin {"SerialException", "PortNotOpenError", "UnicodeDecodeError", "ValueError"})
        => /\ last.err = ""
           /\ Len(last.ev) = 12
           /\ \A i \in 1..12 : last.ev[i].k = (IF i % 3 = 1 THEN "write" ELSE IF i % 3 = 2 THEN "sleep" ELSE "read")
           /\ <<last.ev[1].d, last.ev[4].d, last.ev[7].d, last.ev[10].d>> = <<":COUN:ON\n", "COUN:C1?\n", "COUN:C2?\n", "COUN:CO?\n">>
           /\ last.ev[2].n >= Milli(last.pre["_dwell_time"]) + Milli(comm_wait)
           /\ last.ret = <<ParseInt(DropLast(last.replies[2], 1)), ParseInt(DropLast(last.replies[3], 1)), ParseInt(DropLast(last.replies[4], 1))>>
           /\ (last.replies[2] = <<"1", "0", "\n">> /\ last.replies[3] = <<"2", "0", "\n">> /\ last.replies[4] = <<"3", "\n">>)
                 => last.ret = <<PyInt(10), PyInt(20), PyInt(3)>>

IsEmptyLine(r) == DropLast(r, 1) = <<>>

\* C10: when the MotorDriver position query gets an empty line and then a numeric
\* reply, the getter has written POSI? twice and returns the number of the second
\* reply ("14.5" gives 14.5); a getter that returns, returns the number of a
\* non-empty reply, never a stand-in for the empty one.
C10_EmptyReplyRetried ==
    (cls = "MotorDriver" /\ last.op = "position.get")
        => /\ (Len(last.replies) = 2 /\ IsEmptyLine(last.replies[1]) /\ ParseFloat(DropLast(last.replies[2], 1)).t = "float")
                 => /\ last.err = ""
                    /\ Writes = <<Ev("write", "POSI?\n", 0), Ev("write", "POSI?\n", 0)>>
                    /\ last.ret = <<ParseFloat(DropLast(last.replies[2], 1))>>
           /\ last.replies = <<<<"\n">>, <<"1", "4", ".", "5", "\n">>>> => last.ret = <<PyFloat(14500)>>
           /\ last.err = "" => (~IsEmptyLine(LastReply) /\ last.ret = <<ParseFloat(DropLast(LastReply, 1))>>)

\* C10 witness: an empty line, then "14.5", and the getter returned 14.5
C10_Witness ==
    /\ cls = "MotorDriver" /\ last.op = "position.get"
    /\ last.replies = <<<<"\n">>, <<"1", "4", ".", "5", "\n">>>> /\ last.ret = <<PyFloat(14500)>>

\* C11: one call of the MotorDriver position getter retries an empty reply at most
\* once: it writes POSI? at most twice and then ends, with a value or with a
\* communication error, whatever the transport answers.
C11_AtMostOneRetry ==
    (cls = "MotorDriver" /\ last.op = "position.get")
        => /\ Len(Writes) <= 2
           /\ last.err \in {"", "SerialException", "PortNotOpenError", "UnicodeDecodeError", "ValueError"}

\* C12: cached attribute values never influence a call.  When two sessions that
\* differ at most in their cached values make the same call and the transport
\* answers both alike, the two calls make the same writes, reads and settle sleeps
\* in the same order and end with the same result or the same error.
C12_CacheNeverConsulted ==
    twin.both => /\ twin.ev = last.ev
                 /\ twin.err = last.err
                 /\ twin.ret = last.ret

\* C13: the session does nothing to keep callers apart, and what keeps a single
\* caller's commands apart is only that every method blocks until it is done.  As
\* long as one caller alone has used the session, at most one command is in flight,
\* it is that caller's and the caller is still inside the call that wrote it, and
\* every line a readline returned was the reply to the command the same call had
\* written last, read with nothing else in flight.
C13_OneCallerOneInFlight ==
    \A c \in DOMAIN pc :
        (\A d \in DOMAIN pc \ {c} : ~pc[d].began)
            => /\ Len(wire) <= 1
               /\ \A i \in DOMAIN wire : pc[c].busy /\ wire[i].by = c /\ wire[i].cmd = pc[c].asked
               /\ \A i \in DOMAIN pc[c].heard :
                     LET h == pc[c].heard[i]
                     IN  IF h.asked \in Answered
                         THEN h.by = c /\ h.cmd = h.asked /\ h.inflight = 1
                         ELSE h.by = 0 /\ h.inflight = 0

\* C13 (the race): with two callers on the session, two commands were in flight
\* at once, and the readline of a getter of one caller returned the reply to the
\* query the other caller wrote, which the getter then returned as its own value.
C13_Witness ==
    \E c \in DOMAIN pc :
        /\ \A d \in DOMAIN pc : pc[d].began
        /\ ~pc[c].busy
        /\ last.op \in GetterOps /\ last.err = ""
        /\ Len(pc[c].heard) = 1
        /\ LET h == pc[c].heard[1]
           IN  /\ h.op = last.op
               /\ h.inflight = 2
               /\ h.by \notin {0, c}
               /\ h.asked \in Answered
               /\ h.cmd # h.asked

====
